---------------------------- MODULE Spec2Model ----------------------------
(***************************************************************************)
(* Sales-forecast application (src/app.py).                                *)
(*                                                                         *)
(* The script is a Streamlit page: one script run reads the uploaded CSV,  *)
(* offers three cascading category menus (department, order method,        *)
(* product), aggregates the selected rows into a gap-free daily series,    *)
(* reads the cutoff / start / end dates, and on a button press fits one of *)
(* three backends and shows the forecast.  A script run is modelled as a   *)
(* sequence of stages (pc); every widget read is one action whose value is *)
(* drawn from the values the widget admits.                                *)
(*                                                                         *)
(* Modelling conventions                                                   *)
(*  - a text value (str) is a sequence of one-character strings, so that   *)
(*    str.strip, str.split(' - ') and float() are computed, not assumed;   *)
(*    the two sentinels and category names are single opaque tokens;       *)
(*  - a calendar date is its day number; pd.NaT is NaT;                    *)
(*  - None is <<>> and a present value x is <<x>> (Some / IsNone / Get);   *)
(*  - a DataFrame is the sequence of its rows;                             *)
(*  - a prediction is an exact rational [n, d] (d > 0, lowest terms).      *)
(***************************************************************************)
EXTENDS Integers, Sequences, FiniteSets, TLC

VARIABLES
    uploaded_file,            \* the CSV: [columns, rows]
    PROPHET_AVAILABLE,        \* import of prophet succeeded
    ARIMA_AVAILABLE,          \* import of pmdarima succeeded
    pc,                       \* position of the script run
    raw_data,                 \* load_data()[1]: the parsed rows
    daily_data_all,           \* load_data()[0]
    department_list,          \* menu offered for the department axis
    selected_departments,
    raw_data_department,      \* raw_data_filtered after the department stage
    order_method_list,
    selected_order_methods,
    raw_data_filtered,        \* raw_data_filtered after the order-method stage
    product_list,
    selected_products,
    daily_data,               \* Some(series) or None
    messages,                 \* sidebar warnings shown in this run
    selected_model,
    data_end_date,
    daily_data_for_forecast,
    start_date,
    end_date,
    forecast_days,
    forecast_start_method,    \* radio: "offset" (N days after the cutoff) or "date"
    days_after_last,          \* Some(N) in the offset mode, else None
    run_forecast,             \* the button's value in this run
    periods_requested,        \* number of future periods asked of the backend
    fit_seed,                 \* which fitted model the external backend returned
    forecast_quantity,        \* Some(array) or None
    forecast_amount,          \* Some(array) or None
    forecast_df,              \* rows of the result table
    item_list,                \* sort_by_code: argument
    sorted_list,              \* sort_by_code: result (Some / None)
    load_cache,               \* st.cache_data store of load_data: {<<file, result>>}
    prior_forecast_shown      \* the page showed a forecast table when this run began

vars == << uploaded_file, PROPHET_AVAILABLE, ARIMA_AVAILABLE, pc, raw_data,
           daily_data_all, department_list, selected_departments,
           raw_data_department, order_method_list, selected_order_methods,
           raw_data_filtered, product_list, selected_products, daily_data,
           messages, selected_model, data_end_date, daily_data_for_forecast,
           start_date, end_date, forecast_days, periods_requested, fit_seed,
           forecast_quantity, forecast_amount, forecast_df,
           item_list, sorted_list, forecast_start_method, days_after_last,
           run_forecast, load_cache, prior_forecast_shown >>

---------------------------------------------------------------------------
(* Generic helpers                                                         *)

None == << >>
Some(x) == << x >>
IsNone(o) == o = << >>
Get(o) == o[1]

Range(s) == { s[i] : i \in 1..Len(s) }

SetMin(S) == CHOOSE x \in S : \A y \in S : x <= y
SetMax(S) == CHOOSE x \in S : \A y \in S : y <= x

Abs(x) == IF x < 0 THEN 0 - x ELSE x

RECURSIVE Gcd(_, _)
Gcd(a, b) == IF b = 0 THEN a ELSE Gcd(b, a % b)

\* An exact rational in lowest terms with a positive denominator.
Rat(n, d) ==
    LET g == Gcd(Abs(n), d)
    IN  IF n = 0 THEN [n |-> 0, d |-> 1] ELSE [n |-> n \div g, d |-> d \div g]

RatInt(k) == [n |-> k, d |-> 1]

\* All sequences over S of length 1..n.
SeqsUpTo(S, n) == UNION { [1..k -> S] : k \in 1..n }

---------------------------------------------------------------------------
(* Text: str.strip, str.split(' - ')[0], float()                           *)

Space == " "
Separator == << " ", "-", " " >>       \* the literal ' - '

RECURSIVE LStrip(_)
LStrip(s) ==
    IF s # << >> /\ Head(s) = Space THEN LStrip(Tail(s)) ELSE s

RECURSIVE RStrip(_)
RStrip(s) ==
    IF s # << >> /\ s[Len(s)] = Space THEN RStrip(SubSeq(s, 1, Len(s) - 1)) ELSE s

\* str.strip()
Strip(s) == RStrip(LStrip(s))

\* Positions at which ' - ' occurs in s.
SeparatorAt(s) ==
    { i \in 1..Len(s) : i + 2 <= Len(s) /\ SubSeq(s, i, i + 2) = Separator }

\* s.split(' - ')[0]: the text before the first ' - ', the whole text if none.
SplitHead(s) ==
    IF SeparatorAt(s) = {} THEN s ELSE SubSeq(s, 1, SetMin(SeparatorAt(s)) - 1)

Digits == { "0", "1", "2", "3", "4", "5", "6", "7", "8", "9" }

DigitValue(c) ==
    CASE c = "0" -> 0 [] c = "1" -> 1 [] c = "2" -> 2 [] c = "3" -> 3
      [] c = "4" -> 4 [] c = "5" -> 5 [] c = "6" -> 6 [] c = "7" -> 7
      [] c = "8" -> 8 [] c = "9" -> 9

AllDigits(s) == \A i \in 1..Len(s) : s[i] \in Digits

RECURSIVE DigitsValue(_)
DigitsValue(s) ==
    IF s = << >> THEN 0
    ELSE 10 * DigitsValue(SubSeq(s, 1, Len(s) - 1)) + DigitValue(s[Len(s)])

\* The parts of a decimal literal: sign, integer digits, fraction digits.
Unsigned(s) == IF s # << >> /\ Head(s) = "-" THEN Tail(s) ELSE s
DotAt(s) == { i \in 1..Len(s) : s[i] = "." }
IntDigits(s) ==
    IF DotAt(Unsigned(s)) = {} THEN Unsigned(s)
    ELSE SubSeq(Unsigned(s), 1, SetMin(DotAt(Unsigned(s))) - 1)
FracDigits(s) ==
    IF DotAt(Unsigned(s)) = {} THEN << >>
    ELSE SubSeq(Unsigned(s), SetMin(DotAt(Unsigned(s))) + 1, Len(Unsigned(s)))

\* float(s) succeeds.  Over the characters used here (digits, '.', '-', ' '
\* and letters other than those of 'inf', 'nan' and the exponent) Python
\* accepts exactly [-] digits [. digits*] and [-] . digits, after stripping.
IsFloat(s) ==
    LET t == Strip(s)
    IN  /\ Cardinality(DotAt(Unsigned(t))) <= 1
        /\ AllDigits(IntDigits(t))
        /\ AllDigits(FracDigits(t))
        /\ Len(IntDigits(t)) + Len(FracDigits(t)) >= 1

\* int(float(s)) for a valid literal: truncation toward zero.
IntOfFloat(s) ==
    LET t == Strip(s)
        m == DigitsValue(IntDigits(t))
    IN  IF t # << >> /\ Head(t) = "-" THEN 0 - m ELSE m

\* float(s) * 100, exactly, for a literal with at most two fraction digits.
Hundredths(s) ==
    LET t == Strip(s)
        f == FracDigits(t)
        m == 100 * DigitsValue(IntDigits(t))
               + (IF Len(f) = 0 THEN 0
                  ELSE IF Len(f) = 1 THEN 10 * DigitsValue(f)
                  ELSE DigitsValue(SubSeq(f, 1, 2)))
    IN  IF t # << >> /\ Head(t) = "-" THEN 0 - m ELSE m

---------------------------------------------------------------------------
(* load_data: parsing of the uploaded CSV                                  *)

NaT == -1                              \* pd.NaT: an unparsable sale date

\* The sentinels "all departments / order methods / products" of the menus.
AllDepartments == << "ALL_DEPARTMENTS" >>
AllOrderMethods == << "ALL_ORDER_METHODS" >>
AllProducts == << "ALL_PRODUCTS" >>

\* parse_date: a cell of the sale-date column is [valid, day]; a well-formed
\* 'YYYY年MM月DD日' text parses to its day, anything else to NaT.
parse_date(cell) == IF cell.valid THEN cell.day ELSE NaT

\* .str.replace(',', '')
RemoveCommas(s) == SelectSeq(s, LAMBDA c : c # ",")

\* .astype(float) succeeds on the amount text.
AmountParses(s) == IsFloat(RemoveCommas(s))

\* The parsed amount; the amount texts of the modelled files are whole
\* numbers, for which float() is the integer written.
AmountValue(s) == IntOfFloat(RemoveCommas(s))

\* code.astype(str).str.strip() + ' - ' + name.astype(str).str.strip()
Label(code, name) == Strip(code) \o Separator \o Strip(name)

HasDepartment(file) == "department" \in file.columns
HasOrderMethod(file) == "order_method" \in file.columns
HasProduct(file) == "product" \in file.columns

\* One row of df after the conversions of load_data (lines 88-103).  The
\* label of an axis is meaningful only when the axis's columns are present.
ParsedRow(r) ==
    [ sale_date        |-> parse_date(r.date_cell),
      quantity         |-> r.quantity,
      amount           |-> AmountValue(r.amount_cell),
      department_code  |-> r.department_code,
      department_label |-> Label(r.department_code, r.department_name),
      order_code       |-> r.order_code,
      order_label      |-> Label(r.order_code, r.order_name),
      product_code     |-> r.product_code,
      product_label    |-> Label(r.product_code, r.product_name) ]

ParsedRows(file) == [ i \in 1..Len(file.rows) |-> ParsedRow(file.rows[i]) ]

---------------------------------------------------------------------------
(* Daily aggregation: groupby(sale date).sum() and the gap fill            *)

RECURSIVE SumQuantity(_)
SumQuantity(df) ==
    IF df = << >> THEN 0 ELSE Head(df).quantity + SumQuantity(Tail(df))

RECURSIVE SumAmount(_)
SumAmount(df) ==
    IF df = << >> THEN 0 ELSE Head(df).amount + SumAmount(Tail(df))

OnDate(df, d) == SelectSeq(df, LAMBDA r : r.sale_date = d)

\* The group keys with NaT kept as a key.
GroupKeysWithNaT(df) == { df[i].sale_date : i \in 1..Len(df) }

\* The group keys: groupby drops the rows whose key is NaT.
GroupKeys(df) == { df[i].sale_date : i \in 1..Len(df) } \ { NaT }

RECURSIVE Ascending(_)
Ascending(S) ==
    IF S = {} THEN << >> ELSE << SetMin(S) >> \o Ascending(S \ { SetMin(S) })

\* One row per group with the last row's values instead of the sums.
GroupByDateLast(df) ==
    LET keys == Ascending(GroupKeys(df))
    IN  [ i \in 1..Len(keys) |->
            LET g == OnDate(df, keys[i])
            IN  [ date     |-> keys[i],
                  quantity |-> g[Len(g)].quantity,
                  amount   |-> g[Len(g)].amount ] ]

\* df.groupby(sale date).agg(sum).reset_index(), columns renamed, sorted.
GroupByDate(df) ==
    LET keys == Ascending(GroupKeys(df))
    IN  [ i \in 1..Len(keys) |->
            [ date     |-> keys[i],
              quantity |-> SumQuantity(OnDate(df, keys[i])),
              amount   |-> SumAmount(OnDate(df, keys[i])) ] ]

\* The gap fill left out.
FillMissingDaysNone(daily) == daily

\* pd.date_range(min, max) left-merged with the grouped rows, fillna(0).
FillMissingDays(daily) ==
    IF Len(daily) > 0
    THEN LET min_date == SetMin({ daily[i].date : i \in 1..Len(daily) })
             max_date == SetMax({ daily[i].date : i \in 1..Len(daily) })
         IN  [ k \in 1..(max_date - min_date + 1) |->
                 LET d == min_date + k - 1
                     hit == SelectSeq(daily, LAMBDA row : row.date = d)
                 IN  IF hit = << >>
                     THEN [ date |-> d, quantity |-> 0, amount |-> 0 ]
                     ELSE hit[1] ]
    ELSE daily

\* Lines 105-126, 185-213 and 286-305 are the same aggregation.
Aggregate(df) == FillMissingDays(GroupByDate(df))

---------------------------------------------------------------------------
(* sort_by_code                                                            *)

\* extract_code: int(float(code)), 0 when the code is not a number.
extract_code(item) ==
    LET code_str == Strip(SplitHead(item))
    IN  IF IsFloat(code_str) THEN IntOfFloat(code_str) ELSE 0

\* sorted(items, key=extract_code) is stable: an item goes after every item
\* whose key is not greater.
InsertByCode(sorted, x) ==
    LET after == { i \in 1..Len(sorted) : extract_code(sorted[i]) > extract_code(x) }
    IN  IF after = {} THEN Append(sorted, x)
        ELSE SubSeq(sorted, 1, SetMin(after) - 1) \o << x >>
             \o SubSeq(sorted, SetMin(after), Len(sorted))

RECURSIVE SortedByCode(_)
SortedByCode(items) ==
    IF items = << >> THEN << >>
    ELSE InsertByCode(SortedByCode(SubSeq(items, 1, Len(items) - 1)), items[Len(items)])

sort_by_code(items, is_first_item_all) ==
    IF is_first_item_all
    THEN LET all_item == IF items # << >> THEN items[1] ELSE << >>
             code_items == IF Len(items) > 1 THEN Tail(items) ELSE << >>
         IN  << all_item >> \o SortedByCode(code_items)
    ELSE SortedByCode(items)

\* Series.unique().tolist(): the distinct values in order of first appearance.
RECURSIVE Unique(_)
Unique(s) ==
    IF s = << >> THEN << >>
    ELSE LET u == Unique(SubSeq(s, 1, Len(s) - 1))
         IN  IF s[Len(s)] \in Range(u) THEN u ELSE Append(u, s[Len(s)])

---------------------------------------------------------------------------
(* The three filters                                                       *)

NoFilter(selected, sentinel) == selected = {} \/ sentinel \in selected

filter_by_department(df, selected) ==
    IF NoFilter(selected, AllDepartments) THEN df
    ELSE LET department_codes == { SplitHead(dept) : dept \in selected }
         IN  SelectSeq(df, LAMBDA r : Strip(r.department_code) \in department_codes)

filter_by_order_method(df, selected) ==
    IF NoFilter(selected, AllOrderMethods) THEN df
    ELSE LET order_method_codes == { SplitHead(method) : method \in selected }
         IN  SelectSeq(df, LAMBDA r : Strip(r.order_code) \in order_method_codes)

\* The rows filter_by_product aggregates (lines 183-192).
product_rows(df, selected) ==
    IF NoFilter(selected, AllProducts) THEN df
    ELSE LET product_codes == { SplitHead(prod) : prod \in selected }
         IN  SelectSeq(df, LAMBDA r : Strip(r.product_code) \in product_codes)

filter_by_product(df, selected) == Aggregate(product_rows(df, selected))

\* The menus (lines 229-230, 248-249, 266-267).
DepartmentLabels(df) == [ i \in 1..Len(df) |-> df[i].department_label ]
OrderMethodLabels(df) == [ i \in 1..Len(df) |-> df[i].order_label ]
ProductLabels(df) == [ i \in 1..Len(df) |-> df[i].product_label ]

DepartmentMenu(df) == sort_by_code(<< AllDepartments >> \o Unique(DepartmentLabels(df)), TRUE)
OrderMethodMenu(df) == sort_by_code(<< AllOrderMethods >> \o Unique(OrderMethodLabels(df)), TRUE)

\* The product menu built from every loaded row instead of the filtered rows.
ProductMenuOfAllRows(df) ==
    sort_by_code(<< AllProducts >> \o Unique(ProductLabels(Get(raw_data))), TRUE)

ProductMenu(df) == sort_by_code(<< AllProducts >> \o Unique(ProductLabels(df)), TRUE)

---------------------------------------------------------------------------
(* Bounds of the model and program constants                               *)

MaxAggregateRows == 3      \* rows of a file of the aggregation family
MaxCategoryRows == 2       \* rows of a file of the category family
MaxTimelineRows == 2       \* rows of a file of the timeline family
MaxAhead == 2              \* days past the least admissible date a picker is tried
MaxItems == 3              \* labels after the sentinel in a list given to sort_by_code
MaxAmountRows == 2         \* rows of a file of the amount family
MaxSelectionRows == 2      \* rows of a file of the selection family
MaxSessionRows == 2        \* rows of a file of the session family
MaxBoundsRows == 2         \* rows of a file of the bounds family
MaxUploads == 2            \* different files uploaded in one session

MaxCutoffExtension == 365  \* max_selectable_date: last data date + 365 days
MaxDaysAfterLast == 365    \* number_input max_value
MaxStartWindow == 365      \* explicit start date: min_date + 365 days
MaxEndWindow == 365        \* end date: start_date + 365 days

Min(a, b) == IF a <= b THEN a ELSE b
Max(a, b) == IF a >= b THEN a ELSE b

---------------------------------------------------------------------------
(* Uploaded files the model is run on                                      *)

Txt1 == << "1" >>
Txt2 == << "2" >>

DateCell(d) == [ valid |-> TRUE, day |-> d ]
BadDateCell == [ valid |-> FALSE, day |-> 0 ]

Row(dc, q, a, dept, ord, prod) ==
    [ date_cell       |-> dc,
      quantity        |-> q,
      amount_cell     |-> a,
      department_code |-> dept[1], department_name |-> dept[2],
      order_code      |-> ord[1],  order_name      |-> ord[2],
      product_code    |-> prod[1], product_name    |-> prod[2] ]

DepartmentA == << Txt1, << "DeptA" >> >>
DepartmentB == << << "2", " " >>, << "DeptB" >> >>                \* code '2 '
DepartmentC == << << "1", " ", "-", " ", "2" >>, << "DeptC" >> >> \* code '1 - 2'
DepartmentD == << Txt1, << "DeptD" >> >>                          \* code of DeptA
OrderW == << Txt1, << "Web" >> >>
OrderT == << Txt2, << "Tel" >> >>
ProductP == << Txt1, << "ProdP" >> >>
ProductQ == << Txt2, << "ProdQ" >> >>

\* quantity with the amount text of the row
Sales == { << 1, << "1", "0" >> >>, << 2, << "1", ",", "0", "0", "0" >> >> }

\* Aggregation family: product columns only; dates with a gap, an unparsable
\* date, several rows on one day.
AggregateRows ==
    { Row(dc, s[1], s[2], DepartmentA, OrderW, prod) :
        dc \in { BadDateCell, DateCell(1), DateCell(3) },
        s \in Sales, prod \in { ProductP, ProductQ } }

AggregateFiles ==
    { [ columns |-> { "product" }, rows |-> rows ] :
        rows \in SeqsUpTo(AggregateRows, MaxAggregateRows) }

\* Category family: all three axes present, codes with a trailing blank and
\* with the separator inside.
CategoryRows ==
    { Row(DateCell(1), 1, << "1", "0" >>, dept, ord, prod) :
        dept \in { DepartmentA, DepartmentB, DepartmentC },
        ord \in { OrderW, OrderT }, prod \in { ProductP, ProductQ } }

CategoryFiles ==
    { [ columns |-> { "department", "order_method", "product" }, rows |-> rows ] :
        rows \in SeqsUpTo(CategoryRows, MaxCategoryRows) }

\* Timeline family: no category columns.
TimelineRows ==
    { Row(DateCell(d), s[1], s[2], DepartmentA, OrderW, ProductP) :
        d \in 1..3, s \in Sales }

\* The rows of a timeline file are in date order, as a sales export lists
\* them (the daily series does not depend on the order of the rows).
InDateOrder(rows) ==
    \A i \in 1..(Len(rows) - 1) : rows[i].date_cell.day <= rows[i + 1].date_cell.day

TimelineFiles ==
    { [ columns |-> {}, rows |-> rows ] :
        rows \in { r \in SeqsUpTo(TimelineRows, MaxTimelineRows) : InDateOrder(r) } }

\* Bounds family: no category columns, later days; with these files the
\* pickers are tried at their greatest admissible value too.
BoundsRows ==
    { Row(DateCell(d), 1, << "1", "0" >>, DepartmentA, OrderW, ProductP) : d \in 5..6 }

BoundsFiles ==
    { [ columns |-> {}, rows |-> rows ] :
        rows \in { r \in SeqsUpTo(BoundsRows, MaxBoundsRows) : InDateOrder(r) } }

\* Amount family: no category columns; amount texts with a grouping comma
\* and one that is not a number.
AmountRows ==
    { Row(DateCell(d), 1, a, DepartmentA, OrderW, ProductP) :
        d \in 1..2, a \in { << "1", "0" >>, << "x" >>, << "1", ",", "0", "0", "0" >> } }

AmountFiles ==
    { [ columns |-> {}, rows |-> rows ] :
        rows \in SeqsUpTo(AmountRows, MaxAmountRows) }

\* Selection family: department columns, with or without product columns;
\* two departments under one code, rows with an unparsable date.
SelectionRows ==
    { Row(dc, 1, << "1", "0" >>, dept, OrderW, prod) :
        dc \in { BadDateCell, DateCell(1) },
        dept \in { DepartmentA, DepartmentD, DepartmentB },
        prod \in { ProductP, ProductQ } }

SelectionFiles ==
    { [ columns |-> columns, rows |-> rows ] :
        columns \in { { "department" }, { "department", "product" } },
        rows \in SeqsUpTo(SelectionRows, MaxSelectionRows) }

\* Session family: department columns only; one department sells on day 1,
\* the other on day 2.
SessionRows ==
    { Row(DateCell(1), 1, << "1", "0" >>, DepartmentA, OrderW, ProductP),
      Row(DateCell(2), 1, << "1", "0" >>, DepartmentB, OrderW, ProductP) }

SessionFiles ==
    { [ columns |-> { "department" }, rows |-> rows ] :
        rows \in SeqsUpTo(SessionRows, MaxSessionRows) }

---------------------------------------------------------------------------
(* One script run: load and the three filter stages                        *)

filterVars == << department_list, selected_departments, raw_data_department,
                 order_method_list, selected_order_methods, raw_data_filtered,
                 product_list, selected_products, daily_data >>
timelineVars == << selected_model, data_end_date, daily_data_for_forecast,
                   start_date, end_date, forecast_days,
                   forecast_start_method, days_after_last >>
forecastVars == << run_forecast, periods_requested, fit_seed, forecast_quantity,
                   forecast_amount, forecast_df >>
sessionVars == << load_cache, prior_forecast_shown >>
processVars == << uploaded_file, PROPHET_AVAILABLE, ARIMA_AVAILABLE >>
sortVars == << item_list, sorted_list >>

\* The script's names before the run has bound them.
Unbound ==
    /\ raw_data = None /\ daily_data_all = None
    /\ department_list = << >> /\ selected_departments = {}
    /\ raw_data_department = << >>
    /\ order_method_list = << >> /\ selected_order_methods = {}
    /\ raw_data_filtered = << >>
    /\ product_list = << >> /\ selected_products = {}
    /\ daily_data = None
    /\ messages = {}
    /\ selected_model = "" /\ data_end_date = NaT
    /\ daily_data_for_forecast = << >>
    /\ start_date = NaT /\ end_date = NaT /\ forecast_days = 0
    /\ forecast_start_method = "" /\ days_after_last = None
    /\ run_forecast = FALSE
    /\ periods_requested = 0 /\ fit_seed = None
    /\ forecast_quantity = None /\ forecast_amount = None
    /\ forecast_df = << >>

FreshRun == pc = "load" /\ Unbound

\* A new browser session: nothing cached, nothing on the page.
FreshSession == load_cache = {} /\ prior_forecast_shown = FALSE

\* load_data (lines 71-131): (daily_data_all, df); when a conversion raises,
\* the except branch shows the error and returns (None, None).
load_data(file) ==
    IF \A i \in 1..Len(file.rows) : AmountParses(file.rows[i].amount_cell)
    THEN [ daily_data_all |-> Some(Aggregate(ParsedRows(file))),
           raw_data       |-> Some(ParsedRows(file)),
           error          |-> FALSE ]
    ELSE [ daily_data_all |-> None, raw_data |-> None, error |-> TRUE ]

\* A cache that answers with a stored result whatever file it was stored for.
cached_any(cache, file) ==
    IF cache # {} THEN (CHOOSE e \in cache : TRUE)[2] ELSE load_data(file)

\* @st.cache_data (line 71): the result stored for the same file, else the
\* call itself.
cached_load_data(cache, file) ==
    IF \E e \in cache : e[1] = file
    THEN (CHOOSE e \in cache : e[1] = file)[2]
    ELSE load_data(file)

\* The call of load_data (lines 218-221) and the test of line 223.
LoadData ==
    /\ pc = "load"
    /\ LET result == cached_load_data(load_cache, uploaded_file)
       IN  /\ raw_data' = result.raw_data
           /\ daily_data_all' = result.daily_data_all
           /\ messages' = IF result.error THEN messages \cup { "load_error" }
                          ELSE messages
           /\ pc' = IF ~result.error /\ Len(Get(result.daily_data_all)) > 0
                    THEN "department" ELSE "upload_prompt"
           /\ load_cache' = load_cache \cup { << uploaded_file, result >> }
    /\ UNCHANGED << processVars, prior_forecast_shown, filterVars, timelineVars,
                    forecastVars, sortVars >>

\* Lines 225-242.
DepartmentStage ==
    /\ pc = "department"
    /\ IF HasDepartment(uploaded_file)
       THEN /\ department_list' = DepartmentMenu(Get(raw_data))
            /\ \E chosen \in SUBSET Range(DepartmentMenu(Get(raw_data))) :
                 /\ selected_departments' = chosen
                 /\ raw_data_department' = filter_by_department(Get(raw_data), chosen)
       ELSE /\ department_list' = << >>
            /\ selected_departments' = { AllDepartments }
            /\ raw_data_department' = Get(raw_data)
    /\ pc' = "order_method"
    /\ UNCHANGED << processVars, sessionVars, raw_data, daily_data_all, order_method_list,
                    selected_order_methods, raw_data_filtered, product_list,
                    selected_products, daily_data, messages, timelineVars,
                    forecastVars, sortVars >>

\* Lines 244-260.
OrderMethodStage ==
    /\ pc = "order_method"
    /\ IF HasOrderMethod(uploaded_file)
       THEN /\ order_method_list' = OrderMethodMenu(raw_data_department)
            /\ \E chosen \in SUBSET Range(OrderMethodMenu(raw_data_department)) :
                 /\ selected_order_methods' = chosen
                 /\ raw_data_filtered' = filter_by_order_method(raw_data_department, chosen)
       ELSE /\ order_method_list' = << >>
            /\ selected_order_methods' = { AllOrderMethods }
            /\ raw_data_filtered' = raw_data_department
    /\ pc' = "product"
    /\ UNCHANGED << processVars, sessionVars, raw_data, daily_data_all, department_list,
                    selected_departments, raw_data_department, product_list,
                    selected_products, daily_data, messages, timelineVars,
                    forecastVars, sortVars >>

\* Lines 262-311.
ProductStage ==
    /\ pc = "product"
    /\ IF HasProduct(uploaded_file)
       THEN /\ product_list' = ProductMenu(raw_data_filtered)
            /\ \E chosen \in SUBSET Range(ProductMenu(raw_data_filtered)) :
                 /\ selected_products' = chosen
                 /\ IF Len(filter_by_product(raw_data_filtered, chosen)) > 0
                    THEN /\ daily_data' = Some(filter_by_product(raw_data_filtered, chosen))
                         /\ messages' = messages
                    ELSE /\ daily_data' = None
                         /\ messages' = messages \cup { "no_data_for_selection" }
       ELSE /\ product_list' = << >>
            /\ selected_products' = { AllProducts }
            /\ daily_data' =
                 IF NoFilter(selected_departments, AllDepartments)
                 THEN Some(Aggregate(raw_data_filtered))
                 ELSE Some(filter_by_product(raw_data_filtered, { AllProducts }))
            /\ messages' = messages
    /\ pc' = IF ~IsNone(daily_data') /\ Len(Get(daily_data')) > 0
             THEN "model" ELSE "done"
    /\ UNCHANGED << processVars, sessionVars, raw_data, daily_data_all, department_list,
                    selected_departments, raw_data_department, order_method_list,
                    selected_order_methods, raw_data_filtered, timelineVars,
                    forecastVars, sortVars >>

NextFilter == LoadData \/ DepartmentStage \/ OrderMethodStage \/ ProductStage

InitAggregate ==
    /\ uploaded_file \in AggregateFiles
    /\ PROPHET_AVAILABLE = TRUE /\ ARIMA_AVAILABLE = TRUE
    /\ item_list = << >> /\ sorted_list = None
    /\ FreshSession
    /\ FreshRun

InitCategory ==
    /\ uploaded_file \in CategoryFiles
    /\ PROPHET_AVAILABLE = TRUE /\ ARIMA_AVAILABLE = TRUE
    /\ item_list = << >> /\ sorted_list = None
    /\ FreshSession
    /\ FreshRun

InitLoad ==
    /\ uploaded_file \in AmountFiles
    /\ PROPHET_AVAILABLE = TRUE /\ ARIMA_AVAILABLE = TRUE
    /\ item_list = << >> /\ sorted_list = None
    /\ FreshSession
    /\ FreshRun

SpecAggregate == InitAggregate /\ [][NextFilter]_vars
InitSelection ==
    /\ uploaded_file \in SelectionFiles
    /\ PROPHET_AVAILABLE = TRUE /\ ARIMA_AVAILABLE = TRUE
    /\ item_list = << >> /\ sorted_list = None
    /\ FreshSession
    /\ FreshRun

SpecLoad == InitLoad /\ [][NextFilter]_vars
SpecSelection == InitSelection /\ [][NextFilter]_vars
SpecCategory == InitCategory /\ [][NextFilter]_vars

---------------------------------------------------------------------------
(* Properties of the aggregation and of the filters                        *)

AfterProductStage == pc \in { "model", "done" }

\* The series the product stage left (empty when it left None).
SeriesOf(o) == IF IsNone(o) THEN << >> ELSE Get(o)

DatedDays(df) == { df[i].sale_date : i \in 1..Len(df) } \ { NaT }

\* A series covers exactly the days lo..hi, in order, one entry per day.
CoversExactly(series, lo, hi) ==
    /\ Len(series) = hi - lo + 1
    /\ \A i \in 1..Len(series) : series[i].date = lo + i - 1

GapFilled(df, series) ==
    DatedDays(df) # {} =>
        CoversExactly(series, SetMin(DatedDays(df)), SetMax(DatedDays(df)))

\* C1: gap-fill completeness.  Whenever the rows given to the aggregator hold
\* a parsable sale date, the daily series (of filter_by_product, and of
\* load_data) has (max_date - min_date) + 1 entries, ascending, one per
\* calendar day of [min_date, max_date], adjacent entries one day apart.
C1_GapFillComplete ==
    AfterProductStage =>
        /\ GapFilled(product_rows(raw_data_filtered, selected_products),
                     SeriesOf(daily_data))
        /\ GapFilled(Get(raw_data), Get(daily_data_all))
        /\ \A i \in 1..(Len(SeriesOf(daily_data)) - 1) :
             SeriesOf(daily_data)[i + 1].date = SeriesOf(daily_data)[i].date + 1

\* A run whose selected rows leave a day without a sale between two days with
\* sales and hold a row with an unparsable date: the series is longer than
\* the set of days with sales.
C1_Witness ==
    /\ pc = "model"
    /\ selected_products # {} /\ AllProducts \notin selected_products
    /\ NaT \in { product_rows(raw_data_filtered, selected_products)[i].sale_date :
                   i \in 1..Len(product_rows(raw_data_filtered, selected_products)) }
    /\ Len(Get(daily_data))
         > Cardinality(DatedDays(product_rows(raw_data_filtered, selected_products)))

\* Sums over the rows of day d, written over the row indices.
RECURSIVE QuantityOn(_, _, _)
QuantityOn(df, d, n) ==
    IF n = 0 THEN 0
    ELSE QuantityOn(df, d, n - 1) + (IF df[n].sale_date = d THEN df[n].quantity ELSE 0)

RECURSIVE AmountOn(_, _, _)
AmountOn(df, d, n) ==
    IF n = 0 THEN 0
    ELSE AmountOn(df, d, n - 1) + (IF df[n].sale_date = d THEN df[n].amount ELSE 0)

RECURSIVE DatedQuantity(_, _)
DatedQuantity(df, n) ==
    IF n = 0 THEN 0
    ELSE DatedQuantity(df, n - 1) + (IF df[n].sale_date # NaT THEN df[n].quantity ELSE 0)

RECURSIVE SeriesQuantity(_, _)
SeriesQuantity(series, n) ==
    IF n = 0 THEN 0 ELSE SeriesQuantity(series, n - 1) + series[n].quantity

DaySumsCorrect(df, series) ==
    /\ \A i \in 1..Len(series) :
         /\ series[i].quantity = QuantityOn(df, series[i].date, Len(df))
         /\ series[i].amount = AmountOn(df, series[i].date, Len(df))
    /\ SeriesQuantity(series, Len(series)) = DatedQuantity(df, Len(df))

\* C2: per-day sums.  Every entry of the series carries the sum of quantity
\* and of net amount over exactly the selected rows of its day (0 for a day
\* without rows), and the series' total quantity is that of the dated rows.
C2_DaySums ==
    AfterProductStage =>
        DaySumsCorrect(product_rows(raw_data_filtered, selected_products),
                       SeriesOf(daily_data))

\* A series with a zero-filled day and a day that sums two rows.
C2_Witness ==
    /\ pc = "model"
    /\ \E i \in 1..Len(Get(daily_data)) :
         /\ Get(daily_data)[i].quantity = 0
         /\ Get(daily_data)[i].amount = 0
    /\ \E i \in 1..Len(Get(daily_data)) :
         Len(OnDate(product_rows(raw_data_filtered, selected_products),
                    Get(daily_data)[i].date)) >= 2

\* The whole filter chain on the loaded rows.
Pipeline(df, departments, order_methods, products) ==
    filter_by_product(
        filter_by_order_method(filter_by_department(df, departments), order_methods),
        products)

MenuLabels(menu, sentinel) == Range(menu) \ { sentinel }

\* C7: filter 'all' no-op.  On each axis, selecting the axis's complete label
\* set gives the same daily series as the 'all' sentinel (or nothing) does.
C7_AllIsFullSet ==
    AfterProductStage =>
        /\ Pipeline(Get(raw_data), selected_departments, selected_order_methods,
                    selected_products) = SeriesOf(daily_data)
        /\ selected_departments = MenuLabels(department_list, AllDepartments) =>
             SeriesOf(daily_data)
               = Pipeline(Get(raw_data), { AllDepartments }, selected_order_methods,
                          selected_products)
        /\ selected_order_methods = MenuLabels(order_method_list, AllOrderMethods) =>
             SeriesOf(daily_data)
               = Pipeline(Get(raw_data), selected_departments, { AllOrderMethods },
                          selected_products)
        /\ selected_products = MenuLabels(product_list, AllProducts) =>
             SeriesOf(daily_data)
               = Pipeline(Get(raw_data), selected_departments, selected_order_methods,
                          { AllProducts })

\* The rows that survive the department and the order-method filter.
Survivors ==
    filter_by_order_method(
        filter_by_department(Get(raw_data), selected_departments),
        selected_order_methods)

\* C8: cascading dependency.  The product menu minus its sentinel is exactly
\* the set of product labels of the rows that survive the department and
\* order-method filters (so a subset of all product labels), the sentinel
\* comes first, and the order-method menu is that of the department-filtered
\* rows.
C8_CascadingMenus ==
    AfterProductStage /\ HasProduct(uploaded_file) =>
        /\ product_list[1] = AllProducts
        /\ Len(product_list) = 1 + Cardinality(Range(ProductLabels(Survivors)))
        /\ MenuLabels(product_list, AllProducts) = Range(ProductLabels(Survivors))
        /\ MenuLabels(product_list, AllProducts)
             \subseteq Range(ProductLabels(Get(raw_data)))
        /\ MenuLabels(order_method_list, AllOrderMethods)
             = Range(OrderMethodLabels(
                   filter_by_department(Get(raw_data), selected_departments)))

\* A department selection that removes a product from the product menu.
C8_Witness ==
    /\ pc = "model"
    /\ AllDepartments \notin selected_departments
    /\ selected_departments # {}
    /\ MenuLabels(product_list, AllProducts) # {}
    /\ MenuLabels(product_list, AllProducts) # Range(ProductLabels(Get(raw_data)))

\* load_data has returned in this run.
Loaded == pc \notin { "load", "sort", "sorted" }

\* The rows of the file whose amount text is numeric once its grouping
\* commas are removed.
NumericAmountRows(file) ==
    SelectSeq(file.rows, LAMBDA r : IsFloat(RemoveCommas(r.amount_cell)))

\* C11: unparsable amount.  A row whose net amount is not numeric is left
\* out, every other row is loaded and aggregated, the number of rows left out
\* is shown, and the file is never rejected as a whole.
C11_BadAmountRowExcluded ==
    Loaded =>
        LET kept == [ columns |-> uploaded_file.columns,
                      rows    |-> NumericAmountRows(uploaded_file) ]
        IN  /\ "load_error" \notin messages
            /\ raw_data = Some(ParsedRows(kept))
            /\ daily_data_all = Some(Aggregate(ParsedRows(kept)))
            /\ Len(kept.rows) < Len(uploaded_file.rows) => "rows_dropped" \in messages

\* The rows with a parsed sale date.
DatedRows(df) == SelectSeq(df, LAMBDA r : r.sale_date # NaT)

\* C12: unparsable date.  Loading does not abort; a row whose sale date does
\* not parse carries the null date, no entry of a daily series is dated with
\* it, and every series is the one the rows with parsable dates alone give.
C12_BadDateRowIgnored ==
    Loaded =>
        /\ "load_error" \notin messages
        /\ raw_data # None
        /\ \A i \in 1..Len(Get(raw_data)) :
             Get(raw_data)[i].sale_date = NaT <=> ~uploaded_file.rows[i].date_cell.valid
        /\ Get(daily_data_all) = Aggregate(DatedRows(Get(raw_data)))
        /\ \A i \in 1..Len(Get(daily_data_all)) : Get(daily_data_all)[i].date # NaT
        /\ AfterProductStage =>
             /\ SeriesOf(daily_data)
                  = filter_by_product(DatedRows(raw_data_filtered), selected_products)
             /\ \A i \in 1..Len(SeriesOf(daily_data)) : SeriesOf(daily_data)[i].date # NaT

\* A selection that holds a row with an unparsable date next to dated rows
\* on two different days.
C12_Witness ==
    /\ pc = "model"
    /\ \E i \in 1..Len(product_rows(raw_data_filtered, selected_products)) :
         product_rows(raw_data_filtered, selected_products)[i].sale_date = NaT
    /\ Len(Get(daily_data)) = 3
    /\ Get(daily_data)[1].quantity > 0

\* The rows left by the three filters.
FinalRows == product_rows(raw_data_filtered, selected_products)

\* C13: empty filtered result.  When the rows left by the three filters hold
\* no dated row, the run shows the no-data message and goes on to no timeline
\* control and no forecast, with and without product columns.
C13_EmptySelectionReported ==
    (AfterProductStage /\ DatedRows(FinalRows) = << >>) =>
        /\ pc = "done"
        /\ data_end_date = NaT
        /\ forecast_quantity = None
        /\ "no_data_for_selection" \in messages

\* C19: selection soundness.  On each axis with a selection that is not
\* empty and holds no sentinel, every row the axis's filter keeps carries a
\* label that is in the selection.
C19_KeptRowsAreSelected ==
    AfterProductStage =>
        /\ (HasDepartment(uploaded_file)
              /\ ~NoFilter(selected_departments, AllDepartments)) =>
             \A i \in 1..Len(raw_data_department) :
                 raw_data_department[i].department_label \in selected_departments
        /\ (HasOrderMethod(uploaded_file)
              /\ ~NoFilter(selected_order_methods, AllOrderMethods)) =>
             \A i \in 1..Len(raw_data_filtered) :
                 raw_data_filtered[i].order_label \in selected_order_methods
        /\ (HasProduct(uploaded_file)
              /\ ~NoFilter(selected_products, AllProducts)) =>
             \A i \in 1..Len(FinalRows) :
                 FinalRows[i].product_label \in selected_products

---------------------------------------------------------------------------
(* sort_by_code on its own                                                 *)

SortLabels ==
    { Label(<< "1", ".", "5" >>, << "NameA" >>),
      Label(<< "1", ".", "2" >>, << "NameB" >>),
      Label(<< "X" >>, << "NameC" >>),
      Label(<< "0" >>, << "NameD" >>),
      Label(<< "-", "1" >>, << "NameE" >>),
      Label(<< "2" >>, << "NameF" >>) }

InitSort ==
    /\ uploaded_file = [ columns |-> {}, rows |-> << >> ]
    /\ PROPHET_AVAILABLE = TRUE /\ ARIMA_AVAILABLE = TRUE
    /\ Unbound
    /\ FreshSession
    /\ pc = "sort"
    /\ item_list \in { << AllDepartments >> \o labels :
                         labels \in SeqsUpTo(SortLabels, MaxItems) }
    /\ sorted_list = None

\* The call sort_by_code([sentinel] + labels) of lines 230, 249 and 267.
SortByCode ==
    /\ pc = "sort"
    /\ sorted_list' = Some(sort_by_code(item_list, TRUE))
    /\ pc' = "sorted"
    /\ UNCHANGED << processVars, sessionVars, raw_data, daily_data_all, filterVars, messages,
                    timelineVars, forecastVars, item_list >>

NextSort == SortByCode

SpecSort == InitSort /\ [][NextSort]_vars

\* The numeric value of a label's code, in hundredths; 0 for a code that is
\* not a number.
CodeValue(item) ==
    IF IsFloat(Strip(SplitHead(item))) THEN Hundredths(Strip(SplitHead(item))) ELSE 0

Occurrences(seq, x) == Cardinality({ i \in 1..Len(seq) : seq[i] = x })

\* C9: category-label sort order.  The result starts with the sentinel and
\* holds the other labels, each as often as given, in ascending order of the
\* numeric value of their code, a non-numeric code counting as 0.
C9_SortedByNumericCode ==
    pc = "sorted" =>
        LET out == Get(sorted_list)
        IN  /\ Len(out) = Len(item_list)
            /\ out[1] = AllDepartments
            /\ \A x \in Range(item_list) : Occurrences(out, x) = Occurrences(item_list, x)
            /\ \A i, j \in 2..Len(out) : i < j => CodeValue(out[i]) <= CodeValue(out[j])

---------------------------------------------------------------------------
(* Timeline: model menu, cutoff, forecast window                           *)

\* A menu that offers all three backends whatever was imported.
ModelOptionsAll == << "Prophet", "ARIMA", "Linear Regression" >>

\* Lines 314-319.
ModelOptions ==
    (IF PROPHET_AVAILABLE THEN << "Prophet" >> ELSE << >>)
      \o (IF ARIMA_AVAILABLE THEN << "ARIMA" >> ELSE << >>)
      \o << "Linear Regression" >>

FirstDate(series) == SetMin({ series[i].date : i \in 1..Len(series) })
LastDate(series) == SetMax({ series[i].date : i \in 1..Len(series) })

\* The training series cut at the true last data date and never extended.
TrainingSeriesNotExtended(daily, cutoff) ==
    SelectSeq(daily, LAMBDA row : row.date <= Min(cutoff, LastDate(daily)))

\* daily_data_for_forecast (lines 416-439): the rows up to the true last date,
\* left-merged onto date_range(true first date, data_end_date), fillna(0).
TrainingSeries(daily, cutoff) ==
    LET kept == SelectSeq(daily, LAMBDA row : row.date <= LastDate(daily))
    IN  IF Len(kept) > 0
        THEN [ k \in 1..(cutoff - FirstDate(daily) + 1) |->
                 LET d == FirstDate(daily) + k - 1
                     hit == SelectSeq(kept, LAMBDA row : row.date = d)
                 IN  IF hit = << >>
                     THEN [ date |-> d, quantity |-> 0, amount |-> 0 ]
                     ELSE hit[1] ]
        ELSE kept

\* With a file of the bounds family a picker is tried at its max_value too.
TriesGreatest == uploaded_file \in BoundsFiles

\* The values of min_value..max_value a picker is tried with: the least
\* ones and the greatest one.
Tried(min_value, max_value) ==
    { v \in min_value..max_value :
        v <= min_value + MaxAhead \/ (TriesGreatest /\ v = max_value) }

\* An end-date picker whose max_value is one day later.
EndDateChoicesPastMax(start) == Tried(start, start + MaxEndWindow + 1)

\* The values the date pickers and the number input admit (lines 410-411,
\* 454-455, 469-470, 477-478).
CutoffChoices(daily) ==
    { d \in FirstDate(daily)..(LastDate(daily) + MaxCutoffExtension) :
        \/ d <= LastDate(daily) + MaxAhead
        \/ TriesGreatest /\ d = LastDate(daily) + MaxCutoffExtension }
DaysAfterChoices == Tried(0, MaxDaysAfterLast)
StartDateChoices(cutoff) == Tried(cutoff + 1, cutoff + 1 + MaxStartWindow)
EndDateChoices(start) == Tried(start, start + MaxEndWindow)

\* Lines 321-325.
ChooseModel ==
    /\ pc = "model"
    /\ \E m \in Range(ModelOptions) : selected_model' = m
    /\ pc' = "cutoff"
    /\ UNCHANGED << processVars, sessionVars, raw_data, daily_data_all, filterVars, messages,
                    data_end_date, daily_data_for_forecast, start_date, end_date,
                    forecast_days, forecast_start_method, days_after_last,
                    forecastVars, sortVars >>

\* Lines 386-439.
ChooseCutoff ==
    /\ pc = "cutoff"
    /\ \E d \in CutoffChoices(Get(daily_data)) :
         /\ data_end_date' = d
         /\ daily_data_for_forecast' = TrainingSeries(Get(daily_data), d)
    /\ pc' = "start_date"
    /\ UNCHANGED << processVars, sessionVars, raw_data, daily_data_all, filterVars, messages,
                    selected_model, start_date, end_date, forecast_days,
                    forecast_start_method, days_after_last, forecastVars, sortVars >>

\* Lines 451-461: start given as a number of days after the cutoff.
ChooseStartAfter ==
    /\ pc = "start_date"
    /\ forecast_start_method' = "offset"
    /\ \E n \in DaysAfterChoices :
         /\ days_after_last' = Some(n)
         /\ start_date' = data_end_date + n
    /\ pc' = "end_date"
    /\ UNCHANGED << processVars, sessionVars, raw_data, daily_data_all, filterVars, messages,
                    selected_model, data_end_date, daily_data_for_forecast,
                    end_date, forecast_days, forecastVars, sortVars >>

\* Lines 462-471: start given as a date.
ChooseStartDate ==
    /\ pc = "start_date"
    /\ forecast_start_method' = "date"
    /\ days_after_last' = None
    /\ \E d \in StartDateChoices(data_end_date) : start_date' = d
    /\ pc' = "end_date"
    /\ UNCHANGED << processVars, sessionVars, raw_data, daily_data_all, filterVars, messages,
                    selected_model, data_end_date, daily_data_for_forecast,
                    end_date, forecast_days, forecastVars, sortVars >>

\* Lines 473-482.
ChooseEnd ==
    /\ pc = "end_date"
    /\ \E d \in EndDateChoices(start_date) :
         /\ end_date' = d
         /\ forecast_days' = d - start_date + 1
    /\ pc' = "button"
    /\ UNCHANGED << processVars, sessionVars, raw_data, daily_data_all, filterVars, messages,
                    selected_model, data_end_date, daily_data_for_forecast,
                    start_date, forecast_start_method, days_after_last,
                    forecastVars, sortVars >>

---------------------------------------------------------------------------
(* The forecast run                                                        *)

\* The dispatch of lines 597, 617 and 643.
Backend ==
    IF selected_model = "Prophet" /\ PROPHET_AVAILABLE THEN "Prophet"
    ELSE IF selected_model = "ARIMA" /\ ARIMA_AVAILABLE THEN "ARIMA"
    ELSE "Linear Regression"

\* Lines 581-591.
DaysToForecastEnd(last_data_date) ==
    IF end_date - last_data_date < 0 THEN forecast_days
    ELSE end_date - last_data_date

\* np.maximum left out.
ClampNone(v) == v

\* np.maximum(x, 0) on one element.
Clamp(v) == IF v.n < 0 THEN RatInt(0) ELSE v

\* The fitted model of an external backend (Prophet, auto_arima) is not
\* determined by this program: a fit is one of a family of trends, and
\* Fitted is its prediction for calendar day d.  A fitted trend is negative
\* on some days and positive on others.
Trends == { -1, 1 }
Fits == { [ quantity |-> tq, amount |-> ta ] : tq \in Trends, ta \in Trends }
Fitted(trend, d) == trend * (d - 4)

RECURSIVE SumY(_, _)
SumY(y, n) == IF n = 0 THEN 0 ELSE SumY(y, n - 1) + y[n]
RECURSIVE SumXY(_, _)
SumXY(y, n) == IF n = 0 THEN 0 ELSE SumXY(y, n - 1) + (n - 1) * y[n]
RECURSIVE SumX(_)
SumX(n) == IF n = 0 THEN 0 ELSE SumX(n - 1) + (n - 1)
RECURSIVE SumXX(_)
SumXX(n) == IF n = 0 THEN 0 ELSE SumXX(n - 1) + (n - 1) * (n - 1)

\* LinearRegression().fit(arange(n), y).predict(x): ordinary least squares on
\* the zero-based index; a single point fits the constant y[1].
LinearPredict(y, x) ==
    LET n == Len(y)
        det == n * SumXX(n) - SumX(n) * SumX(n)
        cov == n * SumXY(y, n) - SumX(n) * SumY(y, n)
    IN  IF det = 0 THEN Rat(SumY(y, n), n)
        ELSE Rat(SumY(y, n) * det - cov * SumX(n) + n * cov * x, n * det)

\* The raw predictions of the three branches, before np.maximum.
\* Prophet (lines 607-613): predict on the history plus `periods` days after
\* its last day, keep the days from start_date on, at most forecast_days.
ProphetForecast(train, trend, periods, scale) ==
    LET from == Max(start_date, train[1].date)
        upto == train[Len(train)].date + periods
        found == Max(0, upto - from + 1)
        kept == IF found >= forecast_days THEN forecast_days ELSE found
    IN  [ i \in 1..kept |-> RatInt(scale * Fitted(trend, from + i - 1)) ]

\* auto_arima (lines 621-639): the forecast_days steps after the series.
ArimaForecast(train, trend, scale) ==
    [ i \in 1..forecast_days |->
        RatInt(scale * Fitted(trend, train[Len(train)].date + i)) ]

\* Linear regression (lines 645-650).
LinearForecast(y) ==
    [ i \in 1..forecast_days |-> LinearPredict(y, Len(y) + i - 1) ]

QuantityY(train) == [ i \in 1..Len(train) |-> train[i].quantity ]
AmountY(train) == [ i \in 1..Len(train) |-> train[i].amount ]

\* Number of future periods asked of the backend.
PeriodsRequested ==
    IF Backend = "Prophet" THEN DaysToForecastEnd(LastDate(Get(daily_data)))
    ELSE forecast_days

RawForecastQuantity(fit) ==
    IF Backend = "Prophet"
    THEN ProphetForecast(daily_data_for_forecast, fit.quantity,
                         DaysToForecastEnd(LastDate(Get(daily_data))), 1)
    ELSE IF Backend = "ARIMA"
    THEN ArimaForecast(daily_data_for_forecast, fit.quantity, 1)
    ELSE LinearForecast(QuantityY(daily_data_for_forecast))

RawForecastAmount(fit) ==
    IF Backend = "Prophet"
    THEN ProphetForecast(daily_data_for_forecast, fit.amount,
                         DaysToForecastEnd(LastDate(Get(daily_data))), 10)
    ELSE IF Backend = "ARIMA"
    THEN ArimaForecast(daily_data_for_forecast, fit.amount, 10)
    ELSE LinearForecast(AmountY(daily_data_for_forecast))

\* np.maximum(array, 0) (lines 615, 641, 652, 676, 702, 713).
ClampAll(raw) == [ i \in 1..Len(raw) |-> Clamp(raw[i]) ]

ForecastQuantity(fit) == ClampAll(RawForecastQuantity(fit))
ForecastAmount(fit) == ClampAll(RawForecastAmount(fit))

\* round(): half to even, of a non-negative rational, in units of 1/scale.
RoundRat(v, scale) ==
    LET q == (v.n * scale) \div v.d
        r == (v.n * scale) % v.d
    IN  IF 2 * r < v.d THEN q
        ELSE IF 2 * r > v.d THEN q + 1
        ELSE IF q % 2 = 0 THEN q ELSE q + 1

\* forecast_df (lines 802-808): the dates of [start_date, end_date] cut to the
\* shortest of the three columns; quantity in hundredths, amount in units.
ResultTable(fq, fa) ==
    LET min_length == Min(end_date - start_date + 1, Min(Len(fq), Len(fa)))
    IN  [ i \in 1..min_length |->
            [ date     |-> start_date + i - 1,
              quantity |-> RoundRat(fq[i], 100),
              amount   |-> RoundRat(fa[i], 1) ] ]

FitChoices == IF Backend = "Linear Regression" THEN { None } ELSE { Some(f) : f \in Fits }

\* The button is pressed and both fits succeed (lines 577-849).  Prophet
\* refuses a history of fewer than two rows.  np.max of an empty forecast
\* (line 839) raises after the table is shown.
RunForecast ==
    /\ pc = "button"
    /\ Backend = "Prophet" => Len(daily_data_for_forecast) >= 2
    /\ run_forecast' = TRUE
    /\ \E fit \in FitChoices :
         /\ fit_seed' = fit
         /\ periods_requested' = PeriodsRequested
         /\ forecast_quantity' = Some(ForecastQuantity(SeriesOf(fit)))
         /\ forecast_amount' = Some(ForecastAmount(SeriesOf(fit)))
         /\ forecast_df' = ResultTable(ForecastQuantity(SeriesOf(fit)),
                                       ForecastAmount(SeriesOf(fit)))
         /\ IF Len(ForecastAmount(SeriesOf(fit))) = 0
            THEN pc' = "exception" /\ messages' = messages \cup { "exception" }
            ELSE pc' = "done" /\ messages' = messages
    /\ UNCHANGED << processVars, sessionVars, raw_data, daily_data_all, filterVars,
                    timelineVars, sortVars >>

\* The button is pressed and a fit or predict call of an external backend
\* raises: nothing catches it, the script run ends with the exception.
RunForecastFails ==
    /\ pc = "button"
    /\ Backend \in { "Prophet", "ARIMA" }
    /\ run_forecast' = TRUE
    /\ pc' = "exception"
    /\ messages' = messages \cup { "exception" }
    /\ UNCHANGED << processVars, sessionVars, raw_data, daily_data_all, filterVars,
                    timelineVars, periods_requested, fit_seed, forecast_quantity,
                    forecast_amount, forecast_df, sortVars >>

\* The button is not pressed: the history chart alone (lines 851-873).
NoForecast ==
    /\ pc = "button"
    /\ pc' = "done"
    /\ UNCHANGED << processVars, sessionVars, raw_data, daily_data_all, filterVars, messages,
                    timelineVars, forecastVars, sortVars >>

\* The forecast table (line 826) is on the page: the run was a forecast run
\* that got as far as the display.
ForecastShown ==
    pc \in { "done", "exception" } /\ run_forecast /\ forecast_quantity # None

\* The script starts again from the top: its names are unbound, the page
\* still shows what the run before drew.
ScriptRestart ==
    /\ pc' = "load"
    /\ prior_forecast_shown' = ForecastShown
    /\ raw_data' = None /\ daily_data_all' = None
    /\ department_list' = << >> /\ selected_departments' = {}
    /\ raw_data_department' = << >>
    /\ order_method_list' = << >> /\ selected_order_methods' = {}
    /\ raw_data_filtered' = << >>
    /\ product_list' = << >> /\ selected_products' = {}
    /\ daily_data' = None
    /\ messages' = {}
    /\ selected_model' = "" /\ data_end_date' = NaT
    /\ daily_data_for_forecast' = << >>
    /\ start_date' = NaT /\ end_date' = NaT /\ forecast_days' = 0
    /\ periods_requested' = 0 /\ fit_seed' = None
    /\ forecast_quantity' = None /\ forecast_amount' = None
    /\ forecast_start_method' = "" /\ days_after_last' = None
    /\ run_forecast' = FALSE
    /\ forecast_df' = << >>

\* Any interaction after a run starts the script again from the top.
Rerun ==
    /\ pc \in { "done", "exception", "upload_prompt" }
    /\ ScriptRestart
    /\ UNCHANGED << processVars, load_cache, sortVars >>

Init ==
    /\ uploaded_file \in TimelineFiles
    /\ PROPHET_AVAILABLE \in BOOLEAN /\ ARIMA_AVAILABLE \in BOOLEAN
    /\ item_list = << >> /\ sorted_list = None
    /\ FreshSession
    /\ FreshRun

\* The operator uploads another file (lines 65-69) at any moment after the
\* load: the run in progress is stopped and the script starts again with
\* the new file.
UploadAnother ==
    /\ pc # "load"
    /\ \E file \in SessionFiles :
         /\ file # uploaded_file
         /\ \/ \E e \in load_cache : e[1] = file
            \/ Cardinality(load_cache) < MaxUploads
         /\ uploaded_file' = file
    /\ ScriptRestart
    /\ UNCHANGED << PROPHET_AVAILABLE, ARIMA_AVAILABLE, load_cache, sortVars >>

InitSession ==
    /\ uploaded_file \in SessionFiles
    /\ PROPHET_AVAILABLE = TRUE /\ ARIMA_AVAILABLE = TRUE
    /\ item_list = << >> /\ sorted_list = None
    /\ FreshSession
    /\ FreshRun

NextSession ==
    \/ LoadData \/ DepartmentStage \/ OrderMethodStage \/ ProductStage
    \/ ChooseModel \/ ChooseCutoff \/ UploadAnother

SpecSession == InitSession /\ [][NextSession]_vars

\* The sidebar controls alone, the forecast button left unpressed, over the
\* files of the bounds family.
InitBounds ==
    /\ uploaded_file \in BoundsFiles
    /\ PROPHET_AVAILABLE \in BOOLEAN /\ ARIMA_AVAILABLE = TRUE
    /\ item_list = << >> /\ sorted_list = None
    /\ FreshSession
    /\ FreshRun

NextBounds ==
    \/ LoadData \/ DepartmentStage \/ OrderMethodStage \/ ProductStage
    \/ ChooseModel \/ ChooseCutoff \/ ChooseStartAfter \/ ChooseStartDate
    \/ ChooseEnd \/ NoForecast \/ Rerun

SpecBounds == InitBounds /\ [][NextBounds]_vars

Next ==
    \/ LoadData \/ DepartmentStage \/ OrderMethodStage \/ ProductStage
    \/ ChooseModel \/ ChooseCutoff \/ ChooseStartAfter \/ ChooseStartDate
    \/ ChooseEnd \/ RunForecast \/ RunForecastFails \/ NoForecast \/ Rerun

Spec == Init /\ [][Next]_vars

---------------------------------------------------------------------------
(* Properties of the timeline and of the forecast run                      *)

CutoffChosen == data_end_date # NaT
ForecastMade == ~IsNone(forecast_quantity) /\ ~IsNone(forecast_amount)

TrueMin == FirstDate(Get(daily_data))
TrueLast == LastDate(Get(daily_data))

\* The entry of the filtered daily series for day d.
DailyAt(d) == CHOOSE row \in Range(Get(daily_data)) : row.date = d

\* C3: horizon exactness.  A forecast run yields exactly
\* horizon_days = (end_date - start_date) + 1 predicted quantities and
\* revenues, and the result table has one row per day of
\* [start_date, end_date], for every backend and every admissible cutoff.
C3_HorizonExact ==
    ForecastMade =>
        /\ forecast_days = end_date - start_date + 1
        /\ Len(Get(forecast_quantity)) = forecast_days
        /\ Len(Get(forecast_amount)) = forecast_days
        /\ Len(forecast_df) = forecast_days
        /\ \A i \in 1..Len(forecast_df) : forecast_df[i].date = start_date + i - 1

\* The fitted backend's prediction for calendar day d: of the external
\* backends the fitted trend at d, of the regression the fitted line at d's
\* index (the day after the training series has index Len).
PredictedQuantityFor(d) ==
    IF Backend = "Linear Regression"
    THEN LinearPredict(QuantityY(daily_data_for_forecast),
                       d - daily_data_for_forecast[1].date)
    ELSE RatInt(Fitted(Get(fit_seed).quantity, d))

PredictedAmountFor(d) ==
    IF Backend = "Linear Regression"
    THEN LinearPredict(AmountY(daily_data_for_forecast),
                       d - daily_data_for_forecast[1].date)
    ELSE RatInt(10 * Fitted(Get(fit_seed).amount, d))

NonNegative(v) == IF v.n < 0 THEN RatInt(0) ELSE v

\* C4: backend output alignment.  The value shown for day d of
\* [start_date, end_date] is the backend's (non-negative) prediction for day
\* d itself; predictions for days before start_date are dropped, not shown
\* under later dates.
C4_AlignedWithDates ==
    ForecastMade =>
        /\ \A i \in 1..Len(Get(forecast_quantity)) :
             Get(forecast_quantity)[i]
               = NonNegative(PredictedQuantityFor(start_date + i - 1))
        /\ \A i \in 1..Len(Get(forecast_amount)) :
             Get(forecast_amount)[i]
               = NonNegative(PredictedAmountFor(start_date + i - 1))

\* C5: training series.  It has one entry per day of [true_min, cutoff]; up
\* to min(true_last, cutoff) the entry is the daily series' entry of that
\* day, after true_last quantity and revenue are 0.
C5_TrainingSeries ==
    CutoffChosen =>
        /\ CoversExactly(daily_data_for_forecast, TrueMin, data_end_date)
        /\ \A k \in 1..Len(daily_data_for_forecast) :
             LET row == daily_data_for_forecast[k]
             IN  IF row.date <= TrueLast
                 THEN row = DailyAt(row.date)
                 ELSE row.quantity = 0 /\ row.amount = 0

\* A cutoff after the true last data date: the training series is longer than
\* the daily series, whose days carry sales.
C5_Witness ==
    /\ CutoffChosen
    /\ data_end_date > TrueLast
    /\ Len(daily_data_for_forecast) > Len(Get(daily_data))
    /\ Len(Get(daily_data)) >= 2
    /\ \A i \in 1..Len(Get(daily_data)) : Get(daily_data)[i].quantity > 0

\* C6: horizon resolution.  The number of future periods asked of the
\* selected backend is (end_date - true_last) when that is not negative and
\* horizon_days when it is, for each of the three backends.
C6_PeriodsRequested ==
    ForecastMade =>
        periods_requested
          = (IF end_date - TrueLast >= 0 THEN end_date - TrueLast ELSE forecast_days)

\* The product stage has run in this script run.
SeriesBound == Loaded /\ pc \notin { "upload_prompt", "department", "order_method", "product" }

\* C15: no stale series.  Whatever was uploaded, selected and cached before,
\* the rows, the daily series and the training series of the current run are
\* those of the file now uploaded under the selections and the cutoff now
\* in force.
C15_NoStaleSeries ==
    LET fresh == load_data(uploaded_file)
        series == Pipeline(Get(fresh.raw_data), selected_departments,
                           selected_order_methods, selected_products)
    IN  /\ Loaded =>
             /\ raw_data = fresh.raw_data
             /\ daily_data_all = fresh.daily_data_all
        /\ SeriesBound => SeriesOf(daily_data) = series
        /\ (SeriesBound /\ CutoffChosen) =>
             daily_data_for_forecast = TrainingSeries(series, data_end_date)

\* A file that was loaded before, uploaded again after another one and
\* served from the cache, now under a department selection that leaves a
\* shorter series than the whole file gives.
C15_Witness ==
    /\ pc = "start_date"
    /\ Cardinality(load_cache) = MaxUploads
    /\ prior_forecast_shown = FALSE
    /\ ~NoFilter(selected_departments, AllDepartments)
    /\ Len(Get(daily_data)) < Len(Get(daily_data_all))
    /\ \E e \in load_cache : e[1] # uploaded_file

\* A forecast run whose backend failed: the button was pressed and the run
\* ended without a forecast.
BackendFailed ==
    pc \in { "done", "exception" } /\ run_forecast /\ forecast_quantity = None

\* C14: backend failure recovery.  A forecast run whose fit or predict fails
\* ends normally with a failure message, not in an unhandled exception, and
\* a forecast table that was on the page before the run is still on it.
C14_BackendFailureCaught ==
    BackendFailed =>
        /\ pc = "done"
        /\ "exception" \notin messages
        /\ "forecast_failed" \in messages
        /\ prior_forecast_shown => ForecastShown

\* The backends whose import succeeded at start-up (lines 21-34).
ImportedBackends ==
    (IF PROPHET_AVAILABLE THEN { "Prophet" } ELSE {})
      \cup (IF ARIMA_AVAILABLE THEN { "ARIMA" } ELSE {})

\* C16: backend availability.  The model menu holds exactly the imported
\* backends and Linear Regression, so it is never empty; the selected model
\* is an entry of the menu; in a forecast run the branch executed is the
\* selected entry, and an external backend is fitted only when selected and
\* imported.
C16_BackendAvailability ==
    /\ Range(ModelOptions) = ImportedBackends \cup { "Linear Regression" }
    /\ Len(ModelOptions) = Cardinality(Range(ModelOptions))
    /\ Len(ModelOptions) >= 1
    /\ selected_model # "" =>
         /\ selected_model \in Range(ModelOptions)
         /\ Backend = selected_model
    /\ run_forecast =>
         /\ Backend = selected_model
         /\ Backend \in ImportedBackends \cup { "Linear Regression" }
         /\ ForecastMade => (IsNone(fit_seed) <=> selected_model = "Linear Regression")

\* A forecast made where prophet is not installed: the menu is ARIMA and
\* Linear Regression, and each of the two has been run.
C16_Witness ==
    /\ ForecastMade /\ pc = "done"
    /\ ~PROPHET_AVAILABLE /\ ARIMA_AVAILABLE
    /\ ModelOptions = << "ARIMA", "Linear Regression" >>
    /\ selected_model = "ARIMA"
    /\ ~IsNone(fit_seed)

\* The start of the forecast window has been set in this run.
StartChosen == start_date # NaT

\* C18: forecast start by offset.  In the mode "N days after the data last
\* date" with N = 0 the forecast starts on the day after the cutoff:
\* start_date = data_end_date + 1.
C18_OffsetZeroStartsNextDay ==
    (StartChosen /\ forecast_start_method = "offset" /\ days_after_last = Some(0)) =>
        start_date = data_end_date + 1

\* The end of the forecast window has been set in this run.
EndChosen == end_date # NaT

\* C17: timeline bounds.  Once chosen, the cutoff lies in
\* [true_min, true_last + 365 days], the start in
\* [data_end_date, data_end_date + 366 days], the end in
\* [start_date, start_date + 365 days], and
\* horizon_days = (end_date - start_date) + 1 lies in [1, 366].
C17_TimelineBounds ==
    /\ CutoffChosen =>
         /\ TrueMin <= data_end_date
         /\ data_end_date <= TrueLast + 365
    /\ StartChosen =>
         /\ data_end_date <= start_date
         /\ start_date <= data_end_date + 366
    /\ EndChosen =>
         /\ start_date <= end_date
         /\ end_date <= start_date + 365
         /\ forecast_days = end_date - start_date + 1
         /\ forecast_days \in 1..366

\* Every picker at its greatest value: the cutoff 365 days after the true
\* last date, the start 366 days after the cutoff, the end 365 days after the
\* start, a horizon of 366 days.
C17_Witness ==
    /\ pc = "done"
    /\ data_end_date = TrueLast + 365
    /\ forecast_start_method = "date"
    /\ start_date = data_end_date + 366
    /\ end_date = start_date + 365
    /\ forecast_days = 366

\* The offset mode at both ends of the number input, and the least window.
C17_WitnessOffset ==
    /\ pc = "done"
    /\ data_end_date = TrueMin /\ TrueMin < TrueLast
    /\ days_after_last = Some(0) /\ start_date = data_end_date
    /\ end_date = start_date /\ forecast_days = 1

\* C10: non-negativity.  Every delivered quantity and revenue forecast is
\* >= 0 and is the larger of the backend's raw prediction and 0.
C10_NonNegative ==
    ForecastMade =>
        LET raw_q == RawForecastQuantity(SeriesOf(fit_seed))
            raw_a == RawForecastAmount(SeriesOf(fit_seed))
        IN  /\ Len(Get(forecast_quantity)) = Len(raw_q)
            /\ Len(Get(forecast_amount)) = Len(raw_a)
            /\ \A i \in 1..Len(raw_q) :
                 /\ Get(forecast_quantity)[i].n >= 0
                 /\ Get(forecast_quantity)[i] = NonNegative(raw_q[i])
            /\ \A i \in 1..Len(raw_a) :
                 /\ Get(forecast_amount)[i].n >= 0
                 /\ Get(forecast_amount)[i] = NonNegative(raw_a[i])

\* A regression on a strictly declining training series whose extrapolation
\* is negative: the delivered value is 0.
C10_Witness ==
    /\ ForecastMade
    /\ Backend = "Linear Regression"
    /\ Len(daily_data_for_forecast) >= 3
    /\ \A k \in 1..(Len(daily_data_for_forecast) - 1) :
         daily_data_for_forecast[k + 1].quantity < daily_data_for_forecast[k].quantity
    /\ \E i \in 1..Len(Get(forecast_quantity)) :
         /\ RawForecastQuantity(None)[i].n < 0
         /\ Get(forecast_quantity)[i] = RatInt(0)

=============================================================================
